---- MODULE Spec2Model ----
(***************************************************************************)
(* Model of Scoring/pipeline.py: class Pipeline, the chunked scoring       *)
(* orchestrator.  One action per public method; the collaborators         *)
(* (KaraokeData, AudioPreprocessor, AudioScorer) are external and are      *)
(* modelled by their observable effect: the ScoreVector they return and    *)
(* the point at which they may raise.                                      *)
(*                                                                         *)
(* Numbers.  Scores are exact decimals counted in hundredths (80 = 0.80),  *)
(* weights in tenths (5 = 0.5), so a weighted score is counted in          *)
(* thousandths.  A quotient a / b is kept as the exact fraction            *)
(* [num |-> a, den |-> b]; float rounding is not modelled.                 *)
(* Python dicts are insertion ordered: a dict is a sequence of             *)
(* <<key, value>> pairs with distinct keys.                                *)
(***************************************************************************)
EXTENDS Integers, Sequences, FiniteSets, TLC

\* ---------------------------------------------------------------- bounds
MaxCalls == 2
MaxLen == 2
MaxNames == 2

\* ------------------------------------------------------ program constants
Int16Max == 32767
Int16Min == -32768

\* "high" if score_value >= 0.8, in hundredths
HighThreshold == 80

\* The five score names _reset_scores creates, in the order of the literal.
CumulativeNames ==
  << "linguistic_accuracy_score", "linguistic_similarity_score",
     "amplitude_score", "pitch_score", "rhythm_score" >>

\* Score names the external ScoreComputer may put in a ScoreVector:
\* two known to _reset_scores and one that is not.
ScorerNames == {"pitch_score", "rhythm_score", "tempo_score"}

\* Score values the ScoreComputer may return, in hundredths.
ScoreValues == {79, 80}

\* ------------------------------------------------------------ dict helpers
Range(s) == {s[i] : i \in 1..Len(s)}

Keys(d) == {d[i][1] : i \in 1..Len(d)}

HasKey(d, k) == \E i \in 1..Len(d) : d[i][1] = k

\* d[k] for a key that is present
Get(d, k) == d[CHOOSE i \in 1..Len(d) : d[i][1] = k][2]

\* d[k] = v for a key that is present
Put(d, k, v) == [i \in 1..Len(d) |-> IF d[i][1] = k THEN <<k, v>> ELSE d[i]]

\* all insertion-ordered dicts of at most n items, keys in K, values in V
Dicts(K, V, n) ==
  LET seqs == UNION {[1..m -> K \X V] : m \in 0..n}
  IN {d \in seqs : \A i, j \in 1..Len(d) : i # j => d[i][1] # d[j][1]}

\* -------------------------------------------------------------- fractions
Frac(a, b) == [num |-> a, den |-> b]

NoFrac == Frac(0, 0)

FracEq(x, y) == x.num * y.den = y.num * x.den

Abs(x) == IF x < 0 THEN -x ELSE x

\* ---------------------------------------------------------------- samples
\* A float sample: a finite fraction, NaN, +/-Inf (num is the sign), or
\* +/- the largest finite float ("max", num is the sign).
Fin(a, b) == [kind |-> "fin", num |-> a, den |-> b]

NaN == [kind |-> "nan", num |-> 0, den |-> 1]

Inf(sign) == [kind |-> "inf", num |-> sign, den |-> 1]

FloatMax(sign) == [kind |-> "max", num |-> sign, den |-> 1]

\* ------------------------------------------------------------------ state
VARIABLES
  score_weights,      \* self.score_weights: dict name -> weight (tenths)
  FEEDBACK_MESSAGES,  \* self.config.FEEDBACK_MESSAGES: its keys, in order
  cumulative_scores,  \* self.cumulative_scores: dict name -> sum
  chunk_count,        \* self.chunk_count
  initialized,        \* self.initialized
  calls,              \* process_and_score calls started
  returned,           \* process_and_score calls that returned normally
  align_calls,        \* karaoke_data.align_audio invocations
  align_done,         \* align_audio invocations that returned
  segment_calls,      \* karaoke_data.get_next_segment invocations
  length_hint,        \* argument of the last get_next_segment invocation
  instant_total,      \* sum of the instant scores returned so far
  produced,           \* score names of the ScoreVectors of counted chunks
  counted,            \* per name, the sum over the ScoreVectors of counted chunks
  uniform,            \* every counted chunk yielded the same ScoreVector
  scores,             \* the ScoreVector of the last process_and_score call
  audio_in,           \* the chunk the last process_and_score call was given
  audio_chunk,        \* local audio_chunk of that call after line 92
  result              \* what the last call returned or raised

vars == << score_weights, FEEDBACK_MESSAGES, cumulative_scores, chunk_count,
           initialized, calls, returned, align_calls, align_done,
           segment_calls, length_hint, instant_total, produced, counted,
           uniform, scores, audio_in, audio_chunk, result >>

config == << score_weights, FEEDBACK_MESSAGES >>

\* -------------------------------------------------------- pure functions
\* np.isfinite on one sample
isfinite(x) == x.kind \in {"fin", "max"}

\* np.nan_to_num on one sample, default arguments
nan_to_num(x) ==
  CASE x.kind = "nan" -> Fin(0, 1)
    [] x.kind = "inf" -> FloatMax(x.num)
    [] OTHER -> x

\* lines 90-92: the sanitised chunk
Sanitize(chunk) ==
  IF \A i \in 1..Len(chunk) : isfinite(chunk[i])
  THEN chunk
  ELSE [i \in 1..Len(chunk) |-> nan_to_num(chunk[i])]

\* np.max(np.abs(a)) > 1 for a non-empty int16 buffer (sample i is pcm[i].num)
NeedsScaling(pcm) == \E i \in 1..Len(pcm) : Abs(pcm[i].num) > 1

\* _convert_to_numpy_array(audio_chunk, to_float) for a non-empty buffer
_convert_to_numpy_array(pcm, to_float) ==
  IF to_float /\ NeedsScaling(pcm)
  THEN [i \in 1..Len(pcm) |-> Fin(pcm[i].num, Int16Max)]
  ELSE [i \in 1..Len(pcm) |-> Fin(pcm[i].num, 1)]

\* np.max of an empty array raises ValueError
ConvertRaises(pcm, to_float) == to_float /\ Len(pcm) = 0

\* what one item adds to weighted_score; a missing weight: continue
WeightedTerm_unit(score_type, score_value) ==
  IF ~HasKey(score_weights, score_type) THEN score_value * 10
  ELSE score_value * Get(score_weights, score_type)

\* lines 142-146: what one item adds to weighted_score
WeightedTerm(score_type, score_value) ==
  IF ~HasKey(score_weights, score_type) THEN 0
  ELSE score_value * Get(score_weights, score_type)

RECURSIVE WeightedLoop(_, _, _)
\* the for loop of _calculate_weighted_score from item i on
WeightedLoop(d, i, weighted_score) ==
  IF i > Len(d) THEN weighted_score
  ELSE WeightedLoop(d, i + 1, weighted_score + WeightedTerm(d[i][1], d[i][2]))

_calculate_weighted_score(d) == WeightedLoop(d, 1, 0)

Message(score_name, feedback_type) == [name |-> score_name, type |-> feedback_type]

\* Python's None as a feedback value
None == Message("None", "None")

\* feedback_type with a strict comparison
FeedbackType_strict(score_value) ==
  IF score_value > HighThreshold THEN "high" ELSE "low"

\* line 161: feedback_type
FeedbackType(score_value) ==
  IF score_value >= HighThreshold THEN "high" ELSE "low"

RECURSIVE FeedbackLoop(_, _)
\* the for loop of _generate_feedback from catalog entry i on
FeedbackLoop(d, i) ==
  IF i > Len(FEEDBACK_MESSAGES) THEN None
  ELSE IF HasKey(d, FEEDBACK_MESSAGES[i])
       THEN Message(FEEDBACK_MESSAGES[i], FeedbackType(Get(d, FEEDBACK_MESSAGES[i])))
       ELSE FeedbackLoop(d, i + 1)

_generate_feedback(d) == FeedbackLoop(d, 1)

\* cumulative_scores[score_name] = score_value
AddScore_assign(cum, score_name, score_value) == Put(cum, score_name, score_value)

\* cumulative_scores[score_name] -= score_value
AddScore_minus(cum, score_name, score_value) ==
  Put(cum, score_name, Get(cum, score_name) - score_value)

\* line 114 for a key that is present: cumulative_scores[score_name] += score_value
AddScore(cum, score_name, score_value) ==
  Put(cum, score_name, Get(cum, score_name) + score_value)

RECURSIVE AccumulateLoop(_, _, _)
\* lines 113-114 from item i of the ScoreVector on; KeyError stops the loop
AccumulateLoop(cum, S, i) ==
  IF i > Len(S) THEN [cum |-> cum, raised |-> FALSE]
  ELSE IF ~HasKey(cum, S[i][1])
       THEN [cum |-> cum, raised |-> TRUE]
       ELSE AccumulateLoop(AddScore(cum, S[i][1], S[i][2]), S, i + 1)

Accumulate(cum, S) == AccumulateLoop(cum, S, 1)

\* _reset_scores: the cumulative_scores literal
_reset_scores == [i \in 1..Len(CumulativeNames) |-> <<CumulativeNames[i], 0>>]

\* ----------------------------------------------------------------- inputs
SeqsUpTo(S, n) == UNION {[1..k -> S] : k \in 0..n}

\* samples of a chunk handed over as a float ndarray
ArraySamples == {Fin(1, 2), NaN, Inf(1), Inf(-1)}

\* samples of a chunk handed over as raw 16-bit PCM
PcmSamples == {Fin(Int16Min, 1), Fin(1, 1), Fin(Int16Max, 1)}

AudioChunks ==
  [isarray : {TRUE}, samples : SeqsUpTo(ArraySamples, MaxLen)]
    \cup [isarray : {FALSE}, samples : SeqsUpTo(PcmSamples, MaxLen)]

\* a finite float chunk of one sample
QuietChunk == [isarray |-> TRUE, samples |-> << Fin(1, 2) >>]

\* what the ScoreComputer may return
ScoreVectors == Dicts(ScorerNames, ScoreValues, MaxNames)

UsualVector == << <<"pitch_score", 80>>, <<"rhythm_score", 79>> >>

\* where a collaborator raises during a call, if anywhere
Faults == {"none", "align", "segment", "scorer"}

\* ScoreWeights the orchestrator may be constructed with
WeightChoices ==
  { << <<"pitch_score", 10>> >>,
    << <<"rhythm_score", 5>>, <<"tempo_score", 10>>, <<"pitch_score", 5>> >> }

\* FeedbackCatalogs (key order) the configuration may hold
CatalogChoices ==
  { << >>,
    << "rhythm_score", "pitch_score" >>,
    << "amplitude_score", "pitch_score" >> }

\* ---------------------------------------------------------------- results
Returned(op, score, average, feedback, averages) ==
  [op |-> op, outcome |-> "returned", score |-> score, average |-> average,
   feedback |-> feedback, averages |-> averages]

Raised(op, exception) ==
  [op |-> op, outcome |-> exception, score |-> 0, average |-> NoFrac,
   feedback |-> None, averages |-> << >>]

\* ------------------------------------------------------------------- Init
\* Pipeline.__init__
Init ==
  /\ score_weights \in WeightChoices
  /\ FEEDBACK_MESSAGES \in CatalogChoices
  /\ cumulative_scores = _reset_scores
  /\ chunk_count = 0
  /\ initialized = FALSE
  /\ calls = 0
  /\ returned = 0
  /\ align_calls = 0
  /\ align_done = 0
  /\ segment_calls = 0
  /\ length_hint = 0
  /\ instant_total = 0
  /\ produced = {}
  /\ counted = _reset_scores
  /\ uniform = TRUE
  /\ scores = << >>
  /\ audio_in = [isarray |-> TRUE, samples |-> << >>]
  /\ audio_chunk = << >>
  /\ result = Raised("__init__", "none")

\* ---------------------------------------------------------------- actions
\* How far a call gets: the statement that raises, or "returned".
Stage(chunk, S, fault) ==
  IF ~initialized /\ fault = "align" THEN "align"
  ELSE IF ~chunk.isarray /\ ConvertRaises(chunk.samples, TRUE) THEN "convert"
  ELSE IF fault = "segment" THEN "segment"
  ELSE IF fault = "scorer" THEN "scorer"
  ELSE IF Accumulate(cumulative_scores, S).raised THEN "accumulate"
  ELSE "returned"

\* the flag set whether or not align_audio returned
InitializedAfter_always(stage) == TRUE

\* lines 82-84: self.initialized after the call
InitializedAfter(stage) == IF stage = "align" THEN initialized ELSE TRUE

\* the counter incremented before the accumulation loop
CountAfter_early(stage) ==
  IF stage \in {"accumulate", "returned"} THEN chunk_count + 1 ELSE chunk_count

\* line 115: self.chunk_count after the call
CountAfter(stage) == IF stage = "returned" THEN chunk_count + 1 ELSE chunk_count

\* get_next_segment invoked once for each of the two buffers it returns
SegmentCallsAfter_twice(stage) ==
  IF stage \in {"align", "convert"} THEN segment_calls ELSE segment_calls + 2

\* line 96 is reached once alignment and conversion have not raised
SegmentCallsAfter(stage) ==
  IF stage \in {"align", "convert"} THEN segment_calls ELSE segment_calls + 1

\* the length hint without the factor
LengthHint_samples(samples) == Len(samples)

\* line 96: the argument of get_next_segment
LengthHint(samples) == Len(samples) * 2

\* Pipeline.process_and_score
process_and_score(chunk, S, fault) ==
  /\ calls < MaxCalls
  /\ fault = "align" => ~initialized
  /\ \E stage \in {Stage(chunk, S, fault)}, acc \in {Accumulate(cumulative_scores, S)} :
       LET converted == IF chunk.isarray THEN chunk.samples
                        ELSE _convert_to_numpy_array(chunk.samples, TRUE)
           sanitized == Sanitize(converted)
           score == _calculate_weighted_score(S)
           feedback == _generate_feedback(S)
           average_score ==
             Frac(_calculate_weighted_score(acc.cum), CountAfter(stage))
           before92 == stage \in {"align", "convert"}
           after107 == stage \in {"accumulate", "returned"}
       IN /\ calls' = calls + 1
          /\ audio_in' = chunk
          /\ align_calls' = IF initialized THEN align_calls ELSE align_calls + 1
          /\ initialized' = InitializedAfter(stage)
          /\ align_done' = IF ~initialized /\ stage # "align" THEN align_done + 1
                           ELSE align_done
          /\ audio_chunk' = IF before92 THEN << >> ELSE sanitized
          /\ segment_calls' = SegmentCallsAfter(stage)
          /\ length_hint' = IF before92 THEN length_hint ELSE LengthHint(sanitized)
          /\ scores' = IF after107 THEN S ELSE scores
          /\ cumulative_scores' = IF after107 THEN acc.cum ELSE cumulative_scores
          /\ chunk_count' = CountAfter(stage)
          /\ returned' = IF stage = "returned" THEN returned + 1 ELSE returned
          /\ instant_total' = IF stage = "returned" THEN instant_total + score
                              ELSE instant_total
          /\ produced' = IF stage = "returned" THEN produced \cup Keys(S)
                         ELSE produced
          /\ counted' = IF stage = "returned" THEN Accumulate(counted, S).cum
                        ELSE counted
          /\ uniform' = IF stage = "returned"
                        THEN uniform /\ (returned = 0 \/ S = scores)
                        ELSE uniform
          /\ result' = CASE stage = "returned" ->
                              Returned("process_and_score", score, average_score,
                                       feedback, << >>)
                         [] stage = "accumulate" ->
                              Raised("process_and_score", "KeyError")
                         [] stage = "convert" ->
                              Raised("process_and_score", "ValueError")
                         [] OTHER -> Raised("process_and_score", "CollaboratorError")
          /\ UNCHANGED config

\* final_score with a guarded division
FinalScoreResult_guarded(cum, n) ==
  Returned("final_score", 0,
           IF n = 0 THEN Frac(0, 1) ELSE Frac(_calculate_weighted_score(cum), n),
           _generate_feedback(cum), << >>)

RECURSIVE PlainSum(_, _)
\* the sum of the values of items i.. of a dict
PlainSum(d, i) == IF i > Len(d) THEN 0 ELSE d[i][2] + PlainSum(d, i + 1)

\* final_score averaging the plain sum of the cumulative scores
FinalScoreResult_unweighted(cum, n) ==
  IF n = 0
  THEN Raised("final_score", "ZeroDivisionError")
  ELSE Returned("final_score", 0, Frac(PlainSum(cum, 1), n),
                _generate_feedback(cum), << >>)

\* lines 122-124: what final_score returns or raises
FinalScoreResult(cum, n) ==
  IF n = 0
  THEN Raised("final_score", "ZeroDivisionError")
  ELSE Returned("final_score", 0, Frac(_calculate_weighted_score(cum), n),
                _generate_feedback(cum), << >>)

\* get_average_scores dividing by the calls started
AverageScoresResult_calls(cum, n) ==
  IF n = 0
  THEN Raised("get_average_scores", "ZeroDivisionError")
  ELSE Returned("get_average_scores", 0, NoFrac, None,
                [i \in 1..Len(cum) |-> <<cum[i][1], Frac(cum[i][2], calls)>>])

\* lines 152-154: what get_average_scores returns or raises
AverageScoresResult(cum, n) ==
  IF n = 0
  THEN Raised("get_average_scores", "ZeroDivisionError")
  ELSE Returned("get_average_scores", 0, NoFrac, None,
                [i \in 1..Len(cum) |-> <<cum[i][1], Frac(cum[i][2], n)>>])

\* final_score starting a fresh session after reporting
final_score_reset ==
  /\ result' = FinalScoreResult(cumulative_scores, chunk_count)
  /\ cumulative_scores' = _reset_scores
  /\ chunk_count' = 0
  /\ UNCHANGED << config, initialized, calls, returned, align_calls, align_done,
                  segment_calls, length_hint, instant_total, produced, counted,
                  uniform, scores, audio_in, audio_chunk >>

\* Pipeline.final_score
final_score ==
  /\ result' = FinalScoreResult(cumulative_scores, chunk_count)
  /\ UNCHANGED << config, cumulative_scores, chunk_count, initialized, calls,
                  returned, align_calls, align_done, segment_calls, length_hint,
                  instant_total, produced, counted, uniform, scores, audio_in,
                  audio_chunk >>

\* Pipeline.get_average_scores
get_average_scores ==
  /\ result' = AverageScoresResult(cumulative_scores, chunk_count)
  /\ UNCHANGED << config, cumulative_scores, chunk_count, initialized, calls,
                  returned, align_calls, align_done, segment_calls, length_hint,
                  instant_total, produced, counted, uniform, scores, audio_in,
                  audio_chunk >>

\* a call with a well-formed chunk whose ScoreVector varies
ScoreChunk == \E S \in ScoreVectors : process_and_score(QuietChunk, S, "none")

\* a call whose chunk varies and whose ScoreVector is a usual one
AudioChunk == \E chunk \in AudioChunks : process_and_score(chunk, UsualVector, "none")

\* a call during which a collaborator raises
FaultyChunk ==
  \E fault \in Faults \ {"none"} : process_and_score(QuietChunk, << >>, fault)

\* A session whose ScoreVectors vary, over well-formed chunks.
Next ==
  \/ FaultyChunk
  \/ ScoreChunk
  \/ final_score
  \/ get_average_scores

Spec == Init /\ [][Next]_vars

\* A session whose chunks vary, over a usual ScoreVector.
NextAudio ==
  \/ AudioChunk
  \/ FaultyChunk
  \/ final_score
  \/ get_average_scores

SpecAudio == Init /\ [][NextAudio]_vars

TypeOK ==
  /\ chunk_count \in 0..MaxCalls
  /\ initialized \in BOOLEAN
  /\ Keys(cumulative_scores) = Range(CumulativeNames)

\* ------------------------------------------------------- claim vocabulary
\* the last process_and_score call returned normally
ChunkReturned == result.op = "process_and_score" /\ result.outcome = "returned"

\* the last process_and_score call obtained its ScoreVector (line 107 passed)
ChunkScored ==
  result.op = "process_and_score" /\ result.outcome \in {"returned", "KeyError"}

\* the step is a process_and_score call that obtained its ScoreVector
ScoringStep ==
  /\ calls' = calls + 1
  /\ result'.op = "process_and_score"
  /\ result'.outcome \in {"returned", "KeyError"}

RECURSIVE SumOver(_, _, _)
\* sum of value x weight over the set of names K
SumOver(K, d, w) ==
  IF K = {} THEN 0
  ELSE LET k == CHOOSE x \in K : TRUE
       IN Get(d, k) * Get(w, k) + SumOver(K \ {k}, d, w)

\* values a score may be replaced with when asking whether it matters
ProbeValues == ScoreValues \cup {0, 100}

\* index of the first catalog entry that is a key of d, 0 if there is none
FirstMatch(d) ==
  LET I == {i \in 1..Len(FEEDBACK_MESSAGES) : HasKey(d, FEEDBACK_MESSAGES[i])}
  IN IF I = {} THEN 0 ELSE CHOOSE i \in I : \A j \in I : i <= j

\* the message the claim names for the ScoreVector d
FirstMatchMessage(d) ==
  IF FirstMatch(d) = 0 THEN None
  ELSE LET x == FEEDBACK_MESSAGES[FirstMatch(d)]
       IN IF Get(d, x) >= HighThreshold THEN Message(x, "high")
          ELSE Message(x, "low")

\* ------------------------------------------------------------------ claims
\* C1: when every process_and_score call so far has returned, the running
\* average returned by the n-th call is (sum of the n instant scores) / n,
\* and when every chunk yielded the same ScoreVector it is the composite
\* score of that vector.
C1_RunningAverage ==
  (ChunkReturned /\ calls = returned) =>
    /\ FracEq(result.average, Frac(instant_total, returned))
    /\ uniform => FracEq(result.average, Frac(_calculate_weighted_score(scores), 1))

C1_Witness ==
  /\ ChunkReturned /\ calls = 2 /\ returned = 2 /\ uniform
  /\ _calculate_weighted_score(scores) > 0

\* C2: chunk_count is the number of process_and_score calls that have
\* returned; it grows by one exactly in a call that returns and is left
\* alone by a call that raises and by the two queries.
C2_CountIsReturned ==
  /\ [](chunk_count = returned)
  /\ [][chunk_count' = IF calls' = calls + 1 /\ result'.outcome = "returned"
                       THEN chunk_count + 1 ELSE chunk_count]_vars

C2_Witness ==
  /\ chunk_count = 1 /\ calls = 2
  /\ result.op = "process_and_score" /\ result.outcome = "KeyError"

\* C3 (as claimed): whatever ScoreVector the ScoreComputer returns, the
\* call adds each of its values to the sum of its name, increments
\* chunk_count by one and returns normally.
C3_AnyVectorAccumulates ==
  [][ScoringStep =>
       /\ result'.outcome = "returned"
       /\ chunk_count' = chunk_count + 1
       /\ \A i \in 1..Len(scores') :
            /\ HasKey(cumulative_scores', scores'[i][1])
            /\ Get(cumulative_scores', scores'[i][1])
                 = Get(cumulative_scores, scores'[i][1]) + scores'[i][2]]_vars

\* C4 (as claimed): once a call has been made, align_audio has been invoked
\* exactly once, whether the calls returned or raised.
C4_AlignedExactlyOnce == calls >= 1 => align_calls = 1

\* C4 (amended): a call invokes align_audio exactly when no invocation has
\* returned yet, so align_audio returns at most once and is never invoked
\* afterwards.
C4_AlignUntilDone ==
  [][/\ align_done' <= 1
     /\ calls' = calls + 1 =>
          align_calls' = IF align_done = 0 THEN align_calls + 1 ELSE align_calls
     /\ calls' = calls => align_calls' = align_calls]_vars

C4_Witness == align_calls = 2 /\ align_done = 1 /\ calls = 2

\* C5: the instant score is the sum of value x weight over exactly the names
\* of the ScoreVector that have a weight, and no value of a name without a
\* weight changes it.
C5_CompositeOverWeighted ==
  ChunkReturned =>
    /\ result.score = SumOver(Keys(scores) \cap Keys(score_weights),
                              scores, score_weights)
    /\ \A b \in Keys(scores) \ Keys(score_weights) : \A v \in ProbeValues :
         _calculate_weighted_score(Put(scores, b, v)) = result.score

C5_Witness ==
  /\ ChunkReturned
  /\ Keys(scores) \ Keys(score_weights) # {}
  /\ Keys(scores) \cap Keys(score_weights) # {}
  /\ result.score > 0

\* C6: the feedback of a call is the message of the first catalog name that
\* is in the ScoreVector it selects from (the chunk's, or the cumulative sums
\* for final_score), "high" from 0.8 on and "low" below, and no value of a
\* later catalog name changes it.
C6_FirstMatchFeedback ==
  /\ (result.op = "final_score" /\ result.outcome = "returned") =>
       result.feedback = FirstMatchMessage(cumulative_scores)
  /\ ChunkReturned =>
    /\ result.feedback = FirstMatchMessage(scores)
    /\ \A j \in 1..Len(FEEDBACK_MESSAGES) : \A v \in ProbeValues :
         (FirstMatch(scores) # 0 /\ j > FirstMatch(scores)
            /\ HasKey(scores, FEEDBACK_MESSAGES[j]))
           => _generate_feedback(Put(scores, FEEDBACK_MESSAGES[j], v))
                = result.feedback

C6_Witness ==
  /\ ChunkReturned
  /\ Len(FEEDBACK_MESSAGES) = 2
  /\ HasKey(scores, FEEDBACK_MESSAGES[1]) /\ HasKey(scores, FEEDBACK_MESSAGES[2])
  /\ Get(scores, FEEDBACK_MESSAGES[1]) = HighThreshold
  /\ Get(scores, FEEDBACK_MESSAGES[2]) < HighThreshold
  /\ result.feedback = Message(FEEDBACK_MESSAGES[1], "high")

\* C7: with chunk_count 0, final_score and get_average_scores raise
\* ZeroDivisionError and leave the cumulative sums and chunk_count alone.
C7_QueryBeforeChunk ==
  [][(chunk_count = 0 /\ result'.op \in {"final_score", "get_average_scores"}) =>
       /\ result'.outcome = "ZeroDivisionError"
       /\ UNCHANGED << cumulative_scores, chunk_count >>]_vars

C7_Witness ==
  /\ result.op = "final_score" /\ result.outcome = "ZeroDivisionError"
  /\ chunk_count = 0 /\ calls >= 1 /\ cumulative_scores # _reset_scores

\* C8 (as claimed): a call whose ScoreVector has no name of the catalog
\* returns normally, with no feedback.
C8_NoMatchReturnsNone ==
  (ChunkScored /\ Keys(scores) \cap Range(FEEDBACK_MESSAGES) = {}) =>
    (result.outcome = "returned" /\ result.feedback = None)

\* C9 (as claimed): final_score returns no feedback when no counted chunk
\* produced a score name of the catalog.
C9_FinalNoMatchNone ==
  (result.op = "final_score" /\ result.outcome = "returned"
     /\ produced \cap Range(FEEDBACK_MESSAGES) = {})
    => result.feedback = None

\* C10 (as claimed): a call given a float chunk puts zero in place of each
\* non-finite sample, keeps the finite samples, and when it returns the
\* chunk has been counted.
C10_NonFiniteToZero ==
  (ChunkReturned /\ audio_in.isarray) =>
    /\ chunk_count = returned
    /\ Len(audio_chunk) = Len(audio_in.samples)
    /\ \A i \in 1..Len(audio_chunk) :
         audio_chunk[i] = IF isfinite(audio_in.samples[i])
                          THEN audio_in.samples[i] ELSE Fin(0, 1)

\* C11 (as claimed): when every chunk of a session yielded the same
\* ScoreVector S, final_score returns the composite score of S as the average
\* and the feedback process_and_score returned for those chunks.
C11_FinalMatchesChunks ==
  (result.op = "final_score" /\ result.outcome = "returned"
     /\ calls = returned /\ uniform) =>
    /\ FracEq(result.average, Frac(_calculate_weighted_score(scores), 1))
    /\ result.feedback = FirstMatchMessage(scores)

\* C12: final_score called right after a process_and_score call that
\* returned gives the running average that call returned.
C12_FinalIsRunningAverage ==
  [][(ChunkReturned /\ result'.op = "final_score") =>
       /\ result'.outcome = "returned"
       /\ result'.average = result.average]_vars

C12_Witness ==
  /\ result.op = "final_score" /\ result.outcome = "returned"
  /\ chunk_count = 2 /\ calls = 2 /\ result.average.num > 0
  /\ produced # {}

\* C13: final_score and get_average_scores, whether they return or raise,
\* leave every cumulative sum, chunk_count and the alignment flag as they
\* were.
C13_QueriesReadOnly ==
  [][result'.op \in {"final_score", "get_average_scores"} =>
       UNCHANGED << cumulative_scores, chunk_count, initialized >>]_vars

C13_Witness ==
  /\ result.op = "get_average_scores" /\ result.outcome = "returned"
  /\ chunk_count = 1 /\ calls = 2 /\ cumulative_scores # _reset_scores

\* C14: with non-negative scores, no step lowers chunk_count or any
\* cumulative sum, and no step takes them back to the state after
\* construction.
C14_NeverDecreases ==
  [][/\ chunk_count' >= chunk_count
     /\ Len(cumulative_scores') = Len(cumulative_scores)
     /\ \A i \in 1..Len(cumulative_scores) :
          /\ cumulative_scores'[i][1] = cumulative_scores[i][1]
          /\ cumulative_scores'[i][2] >= cumulative_scores[i][2]]_vars

C14_Witness ==
  /\ chunk_count = 2
  /\ Get(cumulative_scores, "pitch_score") >= 2 * 79
  /\ result.op = "final_score"

\* C15: after n >= 1 counted chunks get_average_scores returns one item per
\* name of cumulative_scores, in its order, whose value is that name's sum
\* divided by n, whatever the weights.
C15_PerNameAverages ==
  (result.op = "get_average_scores" /\ returned >= 1) =>
    /\ result.outcome = "returned"
    /\ Len(result.averages) = Len(cumulative_scores)
    /\ \A i \in 1..Len(cumulative_scores) :
         /\ result.averages[i][1] = cumulative_scores[i][1]
         /\ FracEq(result.averages[i][2], Frac(cumulative_scores[i][2], returned))

C15_Witness ==
  /\ result.op = "get_average_scores" /\ result.outcome = "returned"
  /\ returned = 2
  /\ Get(cumulative_scores, "rhythm_score") > 0
  /\ ~HasKey(score_weights, "rhythm_score")

\* the scale of the converted samples of a full-scale buffer
FullScale == _convert_to_numpy_array(<< Fin(Int16Max, 1) >>, TRUE)[1].den

\* C16 (as claimed): a non-empty 16-bit PCM chunk is converted to samples
\* in [-1, 1], by the scale factor every other buffer gets.
C16_PcmToUnitRange ==
  (result.op = "process_and_score" /\ ~audio_in.isarray
     /\ result.outcome # "ValueError" /\ initialized) =>
    \A i \in 1..Len(audio_chunk) :
      /\ Abs(audio_chunk[i].num) <= audio_chunk[i].den
      /\ audio_chunk[i].den = FullScale

\* the step is a process_and_score call that got past alignment and sample
\* conversion, so that line 96 was reached
FetchingStep ==
  calls' = calls + 1 /\ initialized' /\ result'.outcome # "ValueError"

\* C17 (as claimed): every process_and_score call requests exactly one
\* reference segment.
C17_OneSegmentPerCall == segment_calls = calls

\* C17 (amended): a call requests one segment when alignment and sample
\* conversion have not raised and none otherwise; the request comes after
\* the alignment has returned, asks for twice the sample count of the
\* sanitised chunk, and has been made whenever the chunk was scored.
C17_SegmentAfterAlignment ==
  [][calls' = calls + 1 =>
       /\ segment_calls' = IF FetchingStep THEN segment_calls + 1
                           ELSE segment_calls
       /\ FetchingStep => /\ align_done' = 1
                          /\ length_hint' = 2 * Len(audio_chunk')
       /\ ScoringStep => FetchingStep]_vars

C17_Witness ==
  /\ calls = 2 /\ segment_calls = 1 /\ align_calls = 2
  /\ length_hint = 2 * MaxLen /\ Len(audio_chunk) = MaxLen
  /\ ~audio_in.isarray

\* C18 (as claimed): every cumulative sum is the sum over the ScoreVectors
\* of the calls that returned, and a call that raises leaves the sums as
\* they were.
C18_AllOrNothing ==
  /\ [](cumulative_scores = counted)
  /\ [][(calls' = calls + 1 /\ result'.outcome # "returned") =>
          UNCHANGED cumulative_scores]_vars

\* C19 (as claimed): between calls the number of segments requested is
\* chunk_count.
C19_SegmentsAreChunks == segment_calls = chunk_count

\* C19 (amended): the number of segments requested lies between chunk_count
\* and the number of calls, and is chunk_count as long as every call has
\* returned.
C19_SegmentsAtLeastChunks ==
  /\ chunk_count <= segment_calls
  /\ segment_calls <= calls
  /\ calls = returned => segment_calls = chunk_count

C19_Witness ==
  /\ calls = 2 /\ segment_calls = 2 /\ chunk_count = 1
  /\ result.op = "process_and_score" /\ result.outcome = "CollaboratorError"

====
